---- MODULE Spec2Model ----
(***************************************************************************)
(* A model of libfar-rs (src/src/farlib.rs): the FAR archive codec.        *)
(*                                                                         *)
(* The library is a set of functions over byte buffers and owned structs.  *)
(* The state machine below is a caller that owns one list of files, one    *)
(* archive slot and one buffer, and applies the library's four operations  *)
(* (new_from_files, to_vec, test, load_file_data) to them.  Between calls  *)
(* the buffer may be damaged once (cut short or overwritten), which is how *)
(* malformed archives reach test and load_file_data.                       *)
(*                                                                         *)
(* A u32 is a pair <<hi, lo>> of 16-bit limbs, so that the full 32-bit     *)
(* range and its overflow are kept.  A String is the sequence of its UTF-8 *)
(* bytes.  A byte is a number in 0..255.  A Vec is a sequence (1-based).   *)
(***************************************************************************)
EXTENDS Integers, Sequences, FiniteSets

VARIABLES
    files,            \* the Vec<FarFile> the caller builds the archive from
    overflow_checks,  \* build profile: TRUE panics on integer overflow, FALSE wraps
    archive,          \* the FarArchive the caller holds (meaningful when origin # "none")
    origin,           \* "none" | "built" | "decoded" | "hydrated"
    source,           \* the buffer the held archive was decoded from by test
    hydrated_from,    \* the buffer the held archive was hydrated from by load_file_data
    buffer,           \* the caller's byte buffer (meaningful when buffer_from # "none")
    buffer_from,      \* "none" | "built" | "decoded" | "hydrated": what to_vec serialized
    intact,           \* TRUE while buffer is exactly what to_vec returned
    damaged,          \* TRUE once the buffer has been damaged
    rounds,           \* number of to_vec calls so far
    outcome           \* what the last call did: [op, status, cause, reads, arg]

vars == << files, overflow_checks, archive, origin, source, hydrated_from,
           buffer, buffer_from, intact, damaged, rounds, outcome >>

(***************************************************************************)
(* Bounds of the model.                                                    *)
(***************************************************************************)
MaxFiles == 2
MaxRounds == 2

(***************************************************************************)
(* u32 arithmetic and conversions.                                         *)
(***************************************************************************)
Limb == 256 * 256

\* `n as u32` for a usize n (here always below 2^31)
U32(n) == << (n \div Limb) % Limb, n % Limb >>

\* u32 + u32: the wrapped sum and whether it overflowed
U32Add(a, b) ==
    LET lo == a[2] + b[2]
        hi == a[1] + b[1] + (lo \div Limb)
    IN  [value |-> << hi % Limb, lo % Limb >>, overflow |-> hi >= Limb]

\* `u as usize <= n` for a u32 u and a small usize n
U32LeNat(u, n) ==
    \/ u[1] < n \div Limb
    \/ u[1] = n \div Limb /\ u[2] <= n % Limb

\* a <= b for two u32 (as usize)
U32Le(a, b) == a[1] < b[1] \/ (a[1] = b[1] /\ a[2] <= b[2])

\* `u as usize`, used only where u is known to be at most a buffer length
AsUsize(u) == u[1] * Limb + u[2]

\* u32::to_le_bytes
ToLeBytes(u) == << u[2] % 256, u[2] \div 256, u[1] % 256, u[1] \div 256 >>

\* u32::from_le_bytes
FromLeBytes(b) == << b[3] + 256 * b[4], b[1] + 256 * b[2] >>

\* "FAR!byAZ"
Magic == << 70, 65, 82, 33, 98, 121, 65, 90 >>

(***************************************************************************)
(* String::from_utf8: whether a byte sequence is well-formed UTF-8.        *)
(***************************************************************************)
IsCont(b) == b >= 128 /\ b <= 191

RECURSIVE IsUtf8From(_, _)
IsUtf8From(s, i) ==
    IF i > Len(s) THEN TRUE
    ELSE LET b == s[i]
             has(k) == i + k <= Len(s)
         IN  IF b < 128 THEN IsUtf8From(s, i + 1)
             ELSE IF b >= 194 /\ b <= 223
                  THEN has(1) /\ IsCont(s[i+1]) /\ IsUtf8From(s, i + 2)
             ELSE IF b >= 224 /\ b <= 239
                  THEN /\ has(2)
                       /\ IsCont(s[i+1]) /\ IsCont(s[i+2])
                       /\ (b = 224 => s[i+1] >= 160)
                       /\ (b = 237 => s[i+1] <= 159)
                       /\ IsUtf8From(s, i + 3)
             ELSE IF b >= 240 /\ b <= 244
                  THEN /\ has(3)
                       /\ IsCont(s[i+1]) /\ IsCont(s[i+2]) /\ IsCont(s[i+3])
                       /\ (b = 240 => s[i+1] >= 144)
                       /\ (b = 244 => s[i+1] <= 143)
                       /\ IsUtf8From(s, i + 4)
             ELSE FALSE

IsUtf8(s) == IsUtf8From(s, 1)

(***************************************************************************)
(* The structs.                                                            *)
(***************************************************************************)
FarFileInfo(name, size, offset) == [name |-> name, size |-> size, offset |-> offset]

FarFile(name, size, data) == [name |-> name, size |-> size, data |-> data]

FarArchive(version, file_count, file_list, file_data) ==
    [version |-> version, file_count |-> file_count,
     file_list |-> file_list, file_data |-> file_data]

\* the value of the archive slot while the caller holds no archive
NoArchive == FarArchive(U32(0), U32(0), << >>, << >>)

\* FarFile::new_from_file: the three arguments are stored as given
new_from_file(name, size, data) == FarFile(name, size, data)

(***************************************************************************)
(* Results of the calls.  status is "ok" (a value is returned), "err" (an  *)
(* Err value is returned) or "panic" (the call does not return: unwrap or  *)
(* expect on an Err, a slice or index out of range, an overflow check).    *)
(* reads is the set of regions of the input the call has read.             *)
(***************************************************************************)
Returned(v, reads) == [status |-> "ok", cause |-> "", value |-> v, reads |-> reads]
Failed(cause, reads) == [status |-> "err", cause |-> cause, value |-> << >>, reads |-> reads]
Panicked(cause, reads) == [status |-> "panic", cause |-> cause, value |-> << >>, reads |-> reads]

\* a `+` or `+=` on u32: panics under overflow checks, wraps without them
CheckedAdd(checks, a, b) ==
    LET s == U32Add(a, b)
    IN  [panic |-> checks /\ s.overflow, value |-> s.value]

(***************************************************************************)
(* FarArchive::new_from_files                                              *)
(***************************************************************************)
RECURSIVE BuildLoop(_, _, _, _, _, _)
BuildLoop(checks, fs, i, offset, file_list, file_data) ==
    IF i > Len(fs)
    THEN Returned(FarArchive(U32(1), U32(Len(file_list)), file_list, file_data), {})
    ELSE LET sum == CheckedAdd(checks, offset, fs[i].size)
         IN  IF sum.panic THEN Panicked("attempt to add with overflow", {})
             ELSE BuildLoop(checks, fs, i + 1, sum.value,
                            Append(file_list, FarFileInfo(fs[i].name, fs[i].size, sum.value)),
                            Append(file_data, fs[i]))

new_from_files(checks, fs) == BuildLoop(checks, fs, 1, U32(0), << >>, << >>)

(***************************************************************************)
(* FarFile::new_from_archive and FarArchive::load_file_data                *)
(***************************************************************************)
\* &original_file[start..end] for usize start <= end <= len
Slice(original_file, start, end) == SubSeq(original_file, start + 1, end)

new_from_archive(checks, name, size, offset, original_file) ==
    LET end == CheckedAdd(checks, offset, size)
    IN  IF end.panic THEN Panicked("attempt to add with overflow", {})
        ELSE IF ~ U32Le(offset, end.value)
             THEN Panicked("slice index starts after its end", {})
        ELSE IF ~ U32LeNat(end.value, Len(original_file))
             THEN Panicked("slice end index out of range", {})
        ELSE Returned(FarFile(name, size,
                              Slice(original_file, AsUsize(offset), AsUsize(end.value))), {})

RECURSIVE HydrateLoop(_, _, _, _, _)
HydrateLoop(checks, self, original_file, i, new_file_data) ==
    IF i > Len(self.file_list)
    THEN Returned(FarArchive(self.version, self.file_count, self.file_list, new_file_data), {})
    ELSE LET f == new_from_archive(checks, self.file_list[i].name, self.file_list[i].size,
                                   self.file_list[i].offset, original_file)
         IN  IF f.status = "panic" THEN f
             ELSE HydrateLoop(checks, self, original_file, i + 1,
                              Append(new_file_data, f.value))

\* (mutation) the hydration loop starts at the second entry
load_file_data_from_second(checks, self, original_file) ==
    HydrateLoop(checks, self, original_file, 2, << >>)

load_file_data(checks, self, original_file) ==
    HydrateLoop(checks, self, original_file, 1, << >>)

(***************************************************************************)
(* FarArchive::to_vec                                                      *)
(***************************************************************************)
\* (mutation) the data region is taken to start at 0
DataStartZero == U32(0)

\* where the first file's bytes go
DataStart == U32(16)

\* (mutation) the offset the entry already held is recorded
RecordOffsetStored(self, i, bytes_written) == self.file_list[i].offset

\* the offset recorded for the file being written
RecordOffset(self, i, bytes_written) == bytes_written

\* (mutation) the name length counts characters, not bytes
NameLenChars(name) == U32(Cardinality({ k \in 1..Len(name) : ~ IsCont(name[k]) }))

\* the name length field of a manifest record
NameLen(name) == U32(Len(name))

\* (mutation) the manifest loop runs over the rebuilt list
ManifestLoopLenRebuilt(self, file_list) == Len(file_list)

\* how many manifest records the manifest loop writes
ManifestLoopLen(self, file_list) == Len(self.file_list)

RECURSIVE DataLoop(_, _, _, _, _, _)
DataLoop(checks, self, i, file_data, file_list, bytes_written) ==
    IF i > Len(self.file_data)
    THEN [panic |-> FALSE, file_data |-> file_data, file_list |-> file_list,
          bytes_written |-> bytes_written]
    ELSE LET sum == CheckedAdd(checks, bytes_written, self.file_data[i].size)
         IN  IF sum.panic
             THEN [panic |-> TRUE, file_data |-> file_data, file_list |-> file_list,
                   bytes_written |-> bytes_written]
             ELSE DataLoop(checks, self, i + 1,
                           file_data \o self.file_data[i].data,
                           Append(file_list,
                                  FarFileInfo(self.file_data[i].name, self.file_data[i].size,
                                              RecordOffset(self, i, bytes_written))),
                           sum.value)

ManifestRecord(info) ==
    ToLeBytes(info.size) \o ToLeBytes(info.size) \o ToLeBytes(info.offset)
        \o ToLeBytes(NameLen(info.name)) \o info.name

RECURSIVE ManifestLoop(_, _, _, _)
ManifestLoop(file_list, i, n, manifest) ==
    IF i > n THEN manifest
    ELSE ManifestLoop(file_list, i + 1, n, manifest \o ManifestRecord(file_list[i]))

to_vec(checks, self) ==
    LET header == Magic \o ToLeBytes(self.version)
        d == DataLoop(checks, self, 1, << >>, << >>, DataStart)
        n == ManifestLoopLen(self, d.file_list)
    IN  IF d.panic THEN Panicked("attempt to add with overflow", {})
        ELSE IF n > Len(d.file_list) THEN Panicked("index out of bounds", {})
        ELSE LET manifest == ManifestLoop(d.file_list, 1, n, ToLeBytes(self.file_count))
                 manifest_offset == d.bytes_written
             IN  Returned(header \o ToLeBytes(manifest_offset) \o d.file_data \o manifest, {})

(***************************************************************************)
(* list_files and test                                                     *)
(***************************************************************************)
\* whether read_exact of n bytes succeeds with the reader at position pos
CanRead(file, pos, n) == pos + n <= Len(file)

\* the n bytes read_exact returns with the reader at position pos
ReadExact(file, pos, n) == SubSeq(file, pos + 1, pos + n)

ManifestReads == {"magic", "version", "manifest offset", "manifest"}

RECURSIVE RecordLoop(_, _, _, _, _)
RecordLoop(file, pos, i, num_files, fs) ==
    IF U32LeNat(num_files, i) THEN Returned(fs, ManifestReads)
    ELSE IF ~ CanRead(file, pos, 4)
         THEN Panicked("Failed to read size", ManifestReads)
    ELSE IF ~ CanRead(file, pos + 4, 4)
         THEN Panicked("Failed to read size", ManifestReads)
    ELSE IF ~ CanRead(file, pos + 8, 4)
         THEN Panicked("Failed to read offset", ManifestReads)
    ELSE IF ~ CanRead(file, pos + 12, 4)
         THEN Panicked("Failed to read name length", ManifestReads)
    ELSE LET size == FromLeBytes(ReadExact(file, pos, 4))
             offset == FromLeBytes(ReadExact(file, pos + 8, 4))
             name_len == FromLeBytes(ReadExact(file, pos + 12, 4))
         IN  IF ~ U32LeNat(name_len, Len(file) - (pos + 16))
             THEN Panicked("Failed to read name", ManifestReads)
             ELSE LET name == ReadExact(file, pos + 16, AsUsize(name_len))
                  IN  IF ~ IsUtf8(name)
                      THEN Panicked("invalid utf-8 name", ManifestReads)
                      ELSE RecordLoop(file, pos + 16 + AsUsize(name_len), i + 1, num_files,
                                      Append(fs, FarFileInfo(name, size, offset)))

list_files(file) ==
    LET sofar == {"magic", "version"}
    IN  IF Len(file) < 12 THEN Panicked("slice start index out of range", sofar)
        ELSE IF ~ CanRead(file, 12, 4)
             THEN Panicked("failed to read manifest offset", sofar \cup {"manifest offset"})
        ELSE LET offset == FromLeBytes(ReadExact(file, 12, 4))
                 reads == sofar \cup {"manifest offset"}
             IN  IF ~ U32LeNat(offset, Len(file))
                 THEN Panicked("slice start index out of range", reads)
                 ELSE IF ~ CanRead(file, AsUsize(offset), 4)
                      THEN Panicked("failed to read file count", ManifestReads)
                 ELSE RecordLoop(file, AsUsize(offset) + 4, 0,
                                 FromLeBytes(ReadExact(file, AsUsize(offset), 4)), << >>)

\* (mutation) only the first four bytes are compared
MagicMatchesPrefix(magic) == SubSeq(magic, 1, 4) = SubSeq(Magic, 1, 4)

\* the comparison of the first eight bytes with the magic
MagicMatches(magic) == magic = Magic

test(file) ==
    IF ~ CanRead(file, 0, 8) THEN Panicked("failed to read magic", {"magic"})
    ELSE IF ~ MagicMatches(ReadExact(file, 0, 8))
         THEN Failed("Not a Far archive", {"magic"})
    ELSE IF ~ CanRead(file, 8, 4)
         THEN Panicked("failed to read version", {"magic", "version"})
    ELSE LET version == FromLeBytes(ReadExact(file, 8, 4))
             listed == list_files(file)
         IN  IF listed.status = "panic" THEN listed
             ELSE Returned(FarArchive(version, U32(Len(listed.value)), listed.value, << >>),
                           listed.reads)

(***************************************************************************)
(* The caller's inputs.  InputFiles are the FarFile values the caller can  *)
(* put in its list: three whose size is their data length (one with a      *)
(* two-byte UTF-8 name, one empty) and two whose size field is not (the    *)
(* constructor takes any size).  Example is the list with sizes 10, 20, 5. *)
(***************************************************************************)
MaxU32 == << Limb - 1, Limb - 1 >>

InputFiles ==
    { new_from_file(<< 97 >>, U32(1), << 7 >>),
      new_from_file(<< 195, 169 >>, U32(2), << 7, 200 >>),
      new_from_file(<< >>, U32(0), << >>),
      new_from_file(<< 98 >>, U32(2), << 7 >>),
      new_from_file(<< 99 >>, MaxU32, << >>) }

Bytes(n, b) == [k \in 1..n |-> b]

Example ==
    << new_from_file(<< 97 >>, U32(10), Bytes(10, 1)),
       new_from_file(<< 98 >>, U32(20), Bytes(20, 2)),
       new_from_file(<< 99 >>, U32(5), Bytes(5, 3)) >>

InputLists ==
    UNION { [1..n -> InputFiles] : n \in 0..MaxFiles } \cup { Example }

\* the buffers a damaged copy of b can be: cut short, one byte zeroed, or
\* four bytes overwritten with 0xFF
Truncated(b) == { SubSeq(b, 1, n) : n \in 0..(Len(b) - 1) }

Zeroed(b) == { [b EXCEPT ![p] = 0] : p \in { q \in 1..Len(b) : b[q] # 0 } }

Filled(b) ==
    { [k \in 1..Len(b) |-> IF k >= p /\ k < p + 4 THEN 255 ELSE b[k]] : p \in 1..(Len(b) - 3) }

\* a buffer of any length whose signature is not the magic
Foreign(b) == { [SubSeq(b, 1, n) EXCEPT ![1] = 0] : n \in 1..Len(b) }

DamagedCopies(b) == (Truncated(b) \cup Zeroed(b) \cup Filled(b) \cup Foreign(b)) \ { b }

(***************************************************************************)
(* The state machine.                                                      *)
(***************************************************************************)
Outcome(op, r, arg) ==
    [op |-> op, status |-> r.status, cause |-> r.cause, reads |-> r.reads, arg |-> arg]

Init ==
    /\ files \in InputLists
    /\ overflow_checks \in BOOLEAN
    /\ archive = NoArchive
    /\ origin = "none"
    /\ source = << >>
    /\ hydrated_from = << >>
    /\ buffer = << >>
    /\ buffer_from = "none"
    /\ intact = FALSE
    /\ damaged = FALSE
    /\ rounds = 0
    /\ outcome = [op |-> "start", status |-> "ok", cause |-> "", reads |-> {}, arg |-> << >>]

Running == outcome.status # "panic"

\* let archive = FarArchive::new_from_files(files);   (files is moved)
NewFromFiles ==
    /\ Running
    /\ outcome.op = "start"
    /\ LET r == new_from_files(overflow_checks, files)
       IN  /\ outcome' = Outcome("new_from_files", r, << >>)
           /\ archive' = IF r.status = "ok" THEN r.value ELSE archive
           /\ origin' = IF r.status = "ok" THEN "built" ELSE origin
    /\ UNCHANGED << files, overflow_checks, source, hydrated_from, buffer, buffer_from,
                    intact, damaged, rounds >>

\* let buffer = archive.to_vec();   (archive is moved)
ToVec ==
    /\ Running
    /\ origin # "none"
    /\ rounds < MaxRounds
    /\ LET r == to_vec(overflow_checks, archive)
       IN  /\ outcome' = Outcome("to_vec", r, << >>)
           /\ buffer' = IF r.status = "ok" THEN r.value ELSE buffer
           /\ buffer_from' = IF r.status = "ok" THEN origin ELSE buffer_from
           /\ intact' = IF r.status = "ok" THEN TRUE ELSE intact
    /\ archive' = NoArchive
    /\ origin' = "none"
    /\ source' = << >>
    /\ hydrated_from' = << >>
    /\ rounds' = rounds + 1
    /\ UNCHANGED << files, overflow_checks, damaged >>

\* the buffer is stored and comes back cut short or partly overwritten
Damage ==
    /\ Running
    /\ buffer_from # "none"
    /\ ~ damaged
    /\ buffer' \in DamagedCopies(buffer)
    /\ intact' = FALSE
    /\ damaged' = TRUE
    /\ UNCHANGED << files, overflow_checks, archive, origin, source, hydrated_from,
                    buffer_from, rounds, outcome >>

\* let archive = farlib::test(&buffer)?;
Test ==
    /\ Running
    /\ buffer_from # "none"
    /\ LET r == test(buffer)
       IN  /\ outcome' = Outcome("test", r, buffer)
           /\ archive' = IF r.status = "ok" THEN r.value ELSE archive
           /\ origin' = IF r.status = "ok" THEN "decoded" ELSE origin
           /\ source' = IF r.status = "ok" THEN buffer ELSE source
           /\ hydrated_from' = IF r.status = "ok" THEN << >> ELSE hydrated_from
    /\ UNCHANGED << files, overflow_checks, buffer, buffer_from, intact, damaged, rounds >>

\* let archive = archive.load_file_data(&buffer);
LoadFileData ==
    /\ Running
    /\ origin # "none"
    /\ buffer_from # "none"
    /\ LET r == load_file_data(overflow_checks, archive, buffer)
       IN  /\ outcome' = Outcome("load_file_data", r, buffer)
           /\ archive' = IF r.status = "ok" THEN r.value ELSE NoArchive
           /\ origin' = IF r.status = "ok" THEN "hydrated" ELSE "none"
           /\ hydrated_from' = IF r.status = "ok" THEN buffer ELSE << >>
           /\ source' = IF r.status = "ok" THEN source ELSE << >>
    /\ UNCHANGED << files, overflow_checks, buffer, buffer_from, intact, damaged, rounds >>

Next == NewFromFiles \/ ToVec \/ Damage \/ Test \/ LoadFileData

Spec == Init /\ [][Next]_vars

(***************************************************************************)
(* Vocabulary of the properties.                                           *)
(***************************************************************************)
\* every file's size field is the length of its data
WellFormed(fs) == \A i \in 1..Len(fs) : fs[i].size = U32(Len(fs[i].data))

\* the number of data bytes of the first n files
RECURSIVE DataBytes(_, _)
DataBytes(fs, n) == IF n = 0 THEN 0 ELSE DataBytes(fs, n - 1) + Len(fs[n].data)

\* 16 plus the size fields of the first n files, as a u32
RECURSIVE SizeSum(_, _)
SizeSum(fs, n) == IF n = 0 THEN U32(16) ELSE U32Add(SizeSum(fs, n - 1), fs[n].size).value

\* the manifest offset field of a buffer of at least 16 bytes
ManifestOffsetField(b) == FromLeBytes(SubSeq(b, 13, 16))

\* the buffer is what to_vec returned for the archive new_from_files built
FreshlyBuilt == buffer_from = "built" /\ intact

\* the held archive was decoded from the caller's current buffer
DecodedFromBuffer == origin \in {"decoded", "hydrated"} /\ source = buffer

\* ... and hydrated from it too
HydratedFromBuffer == origin = "hydrated" /\ source = buffer /\ hydrated_from = buffer

\* some entry's offset + size, as a number, is more than the buffer's length
OutOfRange(a, b) ==
    \E i \in 1..Len(a.file_list) :
        LET end == U32Add(a.file_list[i].offset, a.file_list[i].size)
        IN  end.overflow \/ ~ U32LeNat(end.value, Len(b))

(***************************************************************************)
(* C1.  Round trip: for a non-empty list of files whose size is their data *)
(* length, to_vec of new_from_files, then test and load_file_data on that  *)
(* buffer, both return, and the archive has the input's names and sizes in *)
(* its entries and the input's bytes in its contents, in the input order.  *)
(***************************************************************************)
C1_RoundTrip ==
    (FreshlyBuilt /\ files # << >> /\ WellFormed(files)) =>
        /\ (outcome.op \in {"test", "load_file_data"} /\ outcome.arg = buffer)
              => outcome.status = "ok"
        /\ HydratedFromBuffer =>
              /\ Len(archive.file_list) = Len(files)
              /\ Len(archive.file_data) = Len(files)
              /\ \A i \in 1..Len(files) :
                    /\ archive.file_list[i].name = files[i].name
                    /\ archive.file_list[i].size = files[i].size
                    /\ archive.file_data[i].name = files[i].name
                    /\ archive.file_data[i].size = files[i].size
                    /\ archive.file_data[i].data = files[i].data

C1_Witness ==
    /\ FreshlyBuilt /\ HydratedFromBuffer /\ WellFormed(files)
    /\ Len(files) = 2 /\ files[1].name = << 195, 169 >> /\ files[2].name = << 97 >>
    /\ archive.file_data[1].data = << 7, 200 >>

(***************************************************************************)
(* C2.  Re-serialization is byte-exact: for every buffer to_vec returned,  *)
(* test and load_file_data on it return, and to_vec of the result returns  *)
(* the same bytes.                                                         *)
(***************************************************************************)
C2_Reserialize ==
    /\ [](intact =>
            /\ (outcome.op \in {"test", "load_file_data"} /\ outcome.arg = buffer)
                  => outcome.status = "ok")
    /\ [][(ToVec /\ intact /\ HydratedFromBuffer)
            => (outcome'.status = "ok" /\ buffer' = buffer)]_vars

(***************************************************************************)
(* C3.  Offsets: for files of sizes s_1..s_n, the entries test decodes     *)
(* from to_vec's output have offsets 16 + s_1 + .. + s_(i-1), and the      *)
(* manifest offset field is 16 + s_1 + .. + s_n; for sizes 10, 20, 5 these *)
(* are 16, 26, 46 and 51.  The offsets new_from_files stored are not used. *)
(***************************************************************************)
C3_Offsets ==
    FreshlyBuilt =>
        /\ ManifestOffsetField(buffer) = SizeSum(files, Len(files))
        /\ WellFormed(files) =>
              /\ ManifestOffsetField(buffer) = U32(16 + DataBytes(files, Len(files)))
              /\ DecodedFromBuffer =>
                    /\ Len(archive.file_list) = Len(files)
                    /\ \A i \in 1..Len(files) :
                          archive.file_list[i].offset = U32(16 + DataBytes(files, i - 1))
        /\ (files = Example /\ DecodedFromBuffer) =>
              /\ [i \in 1..3 |-> archive.file_list[i].offset] = << U32(16), U32(26), U32(46) >>
              /\ ManifestOffsetField(buffer) = U32(51)

C3_Witness ==
    /\ FreshlyBuilt /\ DecodedFromBuffer /\ origin = "decoded" /\ files = Example
    /\ archive.file_list[3].offset = U32(46)

(***************************************************************************)
(* C4.  Header rejection: test on a buffer of at least 8 bytes whose first *)
(* 8 bytes are not the magic returns the error, having read the magic and  *)
(* nothing else.                                                           *)
(***************************************************************************)
C4_HeaderRejection ==
    (outcome.op = "test" /\ Len(outcome.arg) >= 8 /\ SubSeq(outcome.arg, 1, 8) # Magic) =>
        /\ outcome.status = "err"
        /\ outcome.cause = "Not a Far archive"
        /\ outcome.reads = {"magic"}

C4_Witness ==
    /\ outcome.op = "test" /\ outcome.status = "err"
    /\ Len(outcome.arg) = 8
    /\ SubSeq(outcome.arg, 2, 8) = SubSeq(Magic, 2, 8)

(***************************************************************************)
(* C5.  Truncation: test on a buffer with the magic whose bytes end before *)
(* a manifest field (file count, size, offset, name length, name) is       *)
(* complete returns an error value; it does not panic.                     *)
(***************************************************************************)
TruncatedManifestCauses ==
    { "failed to read file count", "Failed to read size", "Failed to read offset",
      "Failed to read name length", "Failed to read name" }

C5_Truncation ==
    (outcome.op = "test" /\ outcome.cause \in TruncatedManifestCauses) =>
        outcome.status = "err"

(***************************************************************************)
(* C6.  Hydration range check: load_file_data returns an error when some   *)
(* entry's offset + size is more than the buffer's length, and otherwise   *)
(* returns contents that are buffer[offset .. offset+size] of each entry.  *)
(***************************************************************************)
C6_HydrationRange ==
    [][LoadFileData =>
          IF OutOfRange(archive, buffer)
          THEN outcome'.status = "err"
          ELSE /\ outcome'.status = "ok"
               /\ \A i \in 1..Len(archive.file_list) :
                     archive'.file_data[i].data =
                        SubSeq(buffer, AsUsize(archive.file_list[i].offset) + 1,
                               AsUsize(archive.file_list[i].offset)
                                  + AsUsize(archive.file_list[i].size))]_vars

(***************************************************************************)
(* C7.  The manifest offset to_vec writes for an archive new_from_files    *)
(* built is 16 plus the number of data bytes written, and the file count   *)
(* starts at that index of the output.                                     *)
(***************************************************************************)
C7_ManifestOffset ==
    FreshlyBuilt =>
        /\ ManifestOffsetField(buffer) = U32(16 + DataBytes(files, Len(files)))
        /\ SubSeq(buffer, 16 + DataBytes(files, Len(files)) + 1,
                          16 + DataBytes(files, Len(files)) + 4) = ToLeBytes(U32(Len(files)))

(***************************************************************************)
(* C8.  Archive invariant: in every archive the caller holds, non-empty    *)
(* contents have the length of the entries and the same names, index by    *)
(* index; an archive test returned has empty contents.                     *)
(***************************************************************************)
C8_ArchiveInvariant ==
    origin # "none" =>
        /\ archive.file_data # << >> =>
              /\ Len(archive.file_data) = Len(archive.file_list)
              /\ \A i \in 1..Len(archive.file_list) :
                    archive.file_data[i].name = archive.file_list[i].name
        /\ origin = "decoded" => archive.file_data = << >>
        /\ origin = "hydrated" => Len(archive.file_data) = Len(archive.file_list)

C8_Witness ==
    /\ origin = "hydrated" /\ damaged /\ ~ intact
    /\ Len(archive.file_data) = 2
    /\ archive.file_data[1].name # archive.file_data[2].name

(***************************************************************************)
(* C9.  Empty archive: to_vec of new_from_files of the empty list returns  *)
(* 20 bytes: the magic, version 1, manifest offset 16, file count 0.       *)
(***************************************************************************)
C9_EmptyArchive ==
    (files = << >> /\ rounds <= 1 /\ outcome.op \in {"new_from_files", "to_vec"}) =>
        /\ outcome.status = "ok"
        /\ (outcome.op = "to_vec" /\ intact) =>
              /\ Len(buffer) = 20
              /\ buffer = << 70, 65, 82, 33, 98, 121, 65, 90,
                             1, 0, 0, 0,  16, 0, 0, 0,  0, 0, 0, 0 >>

C9_Witness ==
    files = << >> /\ rounds = 1 /\ outcome.op = "to_vec" /\ intact /\ Len(buffer) = 20

(***************************************************************************)
(* C10.  to_vec of an archive test returned, with at least one entry and   *)
(* not hydrated, does not return: it indexes the rebuilt (empty) list out  *)
(* of range.  to_vec returns only when file_list is no longer than         *)
(* file_data.                                                              *)
(***************************************************************************)
C10_Unhydrated ==
    [][ToVec =>
          /\ (origin = "decoded" /\ Len(archive.file_list) >= 1) =>
                (outcome'.status = "panic" /\ outcome'.cause = "index out of bounds")
          /\ outcome'.status = "ok" =>
                Len(archive.file_list) <= Len(archive.file_data)]_vars

C10_Witness ==
    /\ outcome.op = "to_vec" /\ outcome.status = "panic"
    /\ outcome.cause = "index out of bounds"
    /\ buffer_from = "built" /\ intact

====
